---- MODULE Spec2Model ----
(***************************************************************************)
(* OpenL2M REST API client (openl2m.py): the Server and Device session     *)
(* objects, the shared execute() contract and the per-operation request    *)
(* construction, modelled as a state machine over the live session         *)
(* objects and an adversarial HTTP transport.                              *)
(***************************************************************************)
EXTENDS Integers, Sequences, FiniteSets, TLC

VARIABLES
    sess,     \* object id -> the fields of that Server / Device object
    last,     \* object id -> the most recent network call on it, and what it did
    stdout,   \* the lines the most recent logging method call printed
    ncalls,   \* number of network operations invoked so far
    nreq,     \* number of HTTP requests put on the wire so far
    nconf,    \* number of set_verify / set_verbose calls so far
    made      \* Device object id -> the device() call that returned it

vars == <<sess, last, stdout, ncalls, nreq, nconf, made>>

----------------------------------------------------------------------------
(* Bounds of the model *)

MaxCalls == 2
MaxConfig == 1

(* Inputs *)

DeviceIds == {1}

ServerUrls == {"https://openl2m/"}
DeviceUrls == {"https://openl2m/api/switches/9/272/"}
Tokens == {"s3cr3t"}
Verbosity == {0, 1, 2}
InterfaceIds == {"12"}
Descriptions == {"uplink"}
VlanIds == {100}
Views == {"", "details"}
RawEndpoints == {"x/"}

----------------------------------------------------------------------------
(* JSON values and request bodies.  A body is either the default argument  *)
(* (data=False) or a dict, kept as its sequence of items.                  *)

JStr(s) == [kind |-> "str", s |-> s, b |-> FALSE, n |-> 0]
JBool(b) == [kind |-> "bool", s |-> "", b |-> b, n |-> 0]
JInt(n) == [kind |-> "int", s |-> "", b |-> FALSE, n |-> n]

NoData == [given |-> FALSE, items |-> <<>>]
Dict(items) == [given |-> TRUE, items |-> items]
Item(k, v) == [key |-> k, val |-> v]

RawData == {NoData, Dict(<<>>), Dict(<<Item("k", JStr("v"))>>)}

\* Python truth value of the data argument: False and {} are falsy.
Truthy(data) == data.given /\ Len(data.items) > 0

----------------------------------------------------------------------------
(* The transport: what requests.get / requests.post does with one call.    *)

codes_ok == 200

StatusCodes == {200, 204, 404}

BodyOf(code) ==
    IF code = 404 THEN "{\"reason\": \"not found\"}"
    ELSE IF code = 204 THEN "" ELSE "{\"ok\": 1}"

Raise(text, sent) ==
    [kind |-> "exception", text |-> text, sent |-> sent, status_code |-> 0, content |-> ""]
Reply(code) ==
    [kind |-> "response", text |-> "", sent |-> TRUE, status_code |-> code,
     content |-> BodyOf(code)]

Outcomes ==
    {Raise("Connection refused", FALSE), Raise("Read timed out", TRUE)}
        \cup {Reply(c) : c \in StatusCodes}

NoOutcome == [kind |-> "none", text |-> "", sent |-> FALSE, status_code |-> 0, content |-> ""]

NoResponse == [present |-> FALSE, status_code |-> 0, content |-> "", url |-> ""]
Response(o, url) ==
    [present |-> TRUE, status_code |-> o.status_code, content |-> o.content, url |-> url]

----------------------------------------------------------------------------
(* Server.__init__ *)

Server__init__(url, token) ==
    [cls |-> "Server",
     url |-> url,
     token |-> token,
     headers |-> [Authorization |-> "Token " \o token,
                  ContentType |-> "application/json"],
     status |-> 0,
     error |-> "",
     response |-> NoResponse,
     verbose |-> 0,
     verify |-> TRUE,
     error_string |-> "<unset>"]

(* Device.__init__: super().__init__(url=device_url, token=token) *)
Device__init__(device_url, token) ==
    [Server__init__(device_url, token) EXCEPT !.cls = "Device"]

\* str() of a Python bool, as an f-string renders it
PyBool(b) == IF b THEN "True" ELSE "False"

(* Server.debug: the lines printed *)
debug(self, text, level) ==
    IF self.verbose >= level THEN <<text>> ELSE <<>>

----------------------------------------------------------------------------
(* Server.execute *)

\* Variants of ClearOutcome that forget one of the three resets.
ClearOutcome_KeepResponse(self) == [self EXCEPT !.status = 0, !.error = ""]

ClearOutcome_KeepError(self) == [self EXCEPT !.status = 0, !.response = NoResponse]

\* lines 86-88: the outcome fields are reset before the request is built
ClearOutcome(self) ==
    [self EXCEPT !.status = 0, !.error = "", !.response = NoResponse]

\* lines 90-96: the request handed to requests.post / requests.get
BuildRequest(self, endpoint, data) ==
    LET url == self.url \o endpoint IN
    IF Truthy(data)
    THEN [method |-> "POST", url |-> url, json |-> data,
          headers |-> self.headers, verify |-> self.verify]
    ELSE [method |-> "GET", url |-> self.url \o endpoint, json |-> NoData,
          headers |-> self.headers, verify |-> self.verify]

\* line 99: except Exception catches whatever the transport raises
Catches(o) == o.kind = "exception"

\* Variant of OnException that records the message but not the sentinel.
OnException_NoSentinel(self, o) == [self EXCEPT !.error = o.text]

\* lines 100-103: the except branch
OnException(self, o) ==
    [self EXCEPT !.status = -1, !.error = o.text]

\* Variant of OnResponse whose level-2 debugging path skips storing the reply.
OnResponse_DebugSkipsStore(self, o, url) ==
    IF self.verbose >= 2
    THEN [self EXCEPT !.status = o.status_code]
    ELSE [self EXCEPT !.response = Response(o, url), !.status = o.status_code]

\* lines 104-105: the exchange completed
OnResponse(self, o, url) ==
    [self EXCEPT !.response = Response(o, url), !.status = o.status_code]

\* lines 106-108: the return value of a completed exchange
ReturnFor(status_code) ==
    IF status_code # codes_ok THEN FALSE ELSE TRUE

\* The requests a call of execute puts on the wire: one call of the
\* transport, which either got the request out or failed before that.
Transmit(req, o) == IF o.sent THEN <<req>> ELSE <<>>

\* lines 85-108: the body of execute, one pass through the try block
Attempt(self, endpoint, data, o) ==
    LET s0 == ClearOutcome(self)
        req == BuildRequest(s0, endpoint, data)
        d0 == debug(self, "execute(endpoint=" \o endpoint \o ")", 1)
                \o debug(self, "  " \o req.method \o ": " \o req.url, 1)
    IN
    IF o.kind = "exception"
    THEN IF Catches(o)
         THEN [self |-> OnException(s0, o),
               endpoint |-> endpoint,
               data |-> data,
               ret |-> FALSE,
               raised |-> FALSE,
               requests |-> Transmit(req, o),
               outcome |-> o,
               stdout |-> d0 \o debug(self, "  ERROR: " \o o.text, 1)]
         ELSE [self |-> s0,
               endpoint |-> endpoint,
               data |-> data,
               ret |-> FALSE,
               raised |-> TRUE,
               requests |-> Transmit(req, o),
               outcome |-> o,
               stdout |-> d0]
    ELSE [self |-> OnResponse(s0, o, req.url),
          endpoint |-> endpoint,
          data |-> data,
          ret |-> ReturnFor(o.status_code),
          raised |-> FALSE,
          requests |-> Transmit(req, o),
          outcome |-> o,
          stdout |-> d0 \o debug(self, "  Response code " \o ToString(o.status_code), 1)
                       \o debug(self, "  Body:\n" \o o.content \o "\n", 2)]

\* Variant of execute that tries a second time when the first pass failed.
execute_Retry(self, endpoint, data, o) ==
    LET r == Attempt(self, endpoint, data, o) IN
    IF r.ret THEN r ELSE [r EXCEPT !.requests = @ \o @]

\* execute makes that pass once: there is no loop around the try block
execute(self, endpoint, data, o) == Attempt(self, endpoint, data, o)

\* A caller of execute that printed `lines` before calling it.
After(lines, r) == [r EXCEPT !.stdout = lines \o @]

----------------------------------------------------------------------------
(* Server operations *)

devices(self, o) ==
    After(debug(self, "devices()", 1), execute(self, "api/switches/", NoData, o))

menu(self, o) == devices(self, o)

switches(self, o) == devices(self, o)

stats(self, o) ==
    After(debug(self, "stats()", 1), execute(self, "api/stats/", NoData, o))

environment(self, o) ==
    After(debug(self, "environment()", 1), execute(self, "api/environment/", NoData, o))

\* Variant of device that probes the URL while constructing the object.
device_Probing(self, device_url) ==
    [Device__init__(device_url, self.token) EXCEPT
        !.status = -1, !.error = "Connection refused"]

\* Server.device: the new Device object
device(self, device_url) == Device__init__(device_url, self.token)

----------------------------------------------------------------------------
(* Device operations *)

get(self, view, o) ==
    LET endpoint == IF view = "details" THEN "details/" ELSE "" IN
    After(debug(self, "read_switch(view=" \o view \o ")", 1),
          execute(self, endpoint, NoData, o))

\* lines 209-212
StateData(state) ==
    IF state THEN Dict(<<Item("state", JStr("on"))>>)
    ELSE Dict(<<Item("state", JStr("off"))>>)

set_interface_state(self, interface_id, state, o) ==
    LET s1 == [self EXCEPT !.error_string = ""]
        endpoint == "interface/" \o interface_id \o "/state/"
    IN After(debug(self, "set_interface_state(interface_id=" \o interface_id
                         \o ", state=" \o PyBool(state) \o ")", 1),
             execute(s1, endpoint, StateData(state), o))

\* Variant of PoeData that encodes the flag as set_interface_state does.
PoeData_OnOff(poe_state) ==
    Dict(<<Item("poe_state", JStr(IF poe_state THEN "on" ELSE "off"))>>)

\* line 230
PoeData(poe_state) == Dict(<<Item("poe_state", JBool(poe_state))>>)

set_interface_poe_state(self, interface_id, poe_state, o) ==
    LET s1 == [self EXCEPT !.error_string = ""]
        endpoint == "interface/" \o interface_id \o "/poe_state/"
    IN After(debug(self, "set_interface_poe_status(interface_id=" \o interface_id
                         \o ", poe_state=" \o PyBool(poe_state) \o ")", 1),
             execute(s1, endpoint, PoeData(poe_state), o))

set_interface_description(self, interface_id, description, o) ==
    LET endpoint == "interface/" \o interface_id \o "/description/" IN
    After(debug(self, "set_interface_description(interface_id=" \o interface_id
                      \o ", description=" \o description \o ")", 1),
          execute(self, endpoint, Dict(<<Item("description", JStr(description))>>), o))

set_interface_vlan(self, interface_id, vlan_id, o) ==
    LET endpoint == "interface/" \o interface_id \o "/vlan/" IN
    After(debug(self, "set_interface_vlan(interface_id=" \o interface_id
                      \o ", vlan_id=" \o ToString(vlan_id) \o ")", 1),
          execute(self, endpoint, Dict(<<Item("vlan", JInt(vlan_id))>>), o))

----------------------------------------------------------------------------
(* The state machine: a program that holds one Server, the Devices made    *)
(* from it, and calls their public methods in any order.                   *)

Objects == DOMAIN sess

NoArgs == [interface_id |-> "", flag |-> FALSE, text |-> "", num |-> 0]

NoCall ==
    [op |-> "", args |-> NoArgs, endpoint |-> "", data |-> NoData, ret |-> FALSE,
     raised |-> FALSE, requests |-> <<>>, outcome |-> NoOutcome]

\* What object i remembers of a network operation that computed r.
Record(op, args, r) ==
    [op |-> op, args |-> args, endpoint |-> r.endpoint, data |-> r.data, ret |-> r.ret,
     raised |-> r.raised, requests |-> r.requests, outcome |-> r.outcome]

Init ==
    /\ \E url \in ServerUrls, token \in Tokens :
           sess = (0 :> Server__init__(url, token))
    /\ last = (0 :> NoCall)
    /\ stdout = <<>>
    /\ ncalls = 0
    /\ nreq = 0
    /\ nconf = 0
    /\ made = <<>>

\* The effect of one network operation on object i, result being what it
\* computed.
Commit(i, op, args, result) ==
    \E r \in {result} :
        /\ sess' = [sess EXCEPT ![i] = r.self]
        /\ last' = [last EXCEPT ![i] = Record(op, args, r)]
        /\ stdout' = r.stdout
        /\ ncalls' = ncalls + 1
        /\ nreq' = nreq + Len(r.requests)
        /\ UNCHANGED <<nconf, made>>

SetVerify(i) ==
    /\ nconf < MaxConfig
    /\ \E verify \in BOOLEAN :
           sess' = [sess EXCEPT ![i].verify = verify]
    /\ nconf' = nconf + 1
    /\ UNCHANGED <<last, stdout, ncalls, nreq, made>>

NewDevice(i) ==
    \E device_url \in DeviceUrls :
        LET j == Cardinality(Objects) IN
        /\ j \in DeviceIds
        /\ sess' = sess @@ (j :> device(sess[i], device_url))
        /\ last' = last @@ (j :> NoCall)
        /\ made' = made @@ (j :> [by |-> i, device_url |-> device_url])
        /\ stdout' = debug(sess[i], "device(device_url=" \o device_url \o ")", 1)
        /\ UNCHANGED <<ncalls, nreq, nconf>>

Devices(i) ==
    /\ ncalls < MaxCalls
    /\ \E o \in Outcomes : Commit(i, "devices", NoArgs, devices(sess[i], o))

Stats(i) ==
    /\ ncalls < MaxCalls
    /\ \E o \in Outcomes : Commit(i, "stats", NoArgs, stats(sess[i], o))

Environment(i) ==
    /\ ncalls < MaxCalls
    /\ \E o \in Outcomes : Commit(i, "environment", NoArgs, environment(sess[i], o))

Execute(i) ==
    /\ ncalls < MaxCalls
    /\ \E endpoint \in RawEndpoints, data \in RawData, o \in Outcomes :
           Commit(i, "execute", [NoArgs EXCEPT !.text = endpoint],
                  execute(sess[i], endpoint, data, o))

Get(i) ==
    /\ ncalls < MaxCalls
    /\ sess[i].cls = "Device"
    /\ \E view \in Views, o \in Outcomes :
           Commit(i, "get", [NoArgs EXCEPT !.text = view], get(sess[i], view, o))

SetInterfaceState(i) ==
    /\ ncalls < MaxCalls
    /\ sess[i].cls = "Device"
    /\ \E id \in InterfaceIds, state \in BOOLEAN, o \in Outcomes :
           Commit(i, "set_interface_state",
                  [NoArgs EXCEPT !.interface_id = id, !.flag = state],
                  set_interface_state(sess[i], id, state, o))

SetInterfacePoeState(i) ==
    /\ ncalls < MaxCalls
    /\ sess[i].cls = "Device"
    /\ \E id \in InterfaceIds, poe_state \in BOOLEAN, o \in Outcomes :
           Commit(i, "set_interface_poe_state",
                  [NoArgs EXCEPT !.interface_id = id, !.flag = poe_state],
                  set_interface_poe_state(sess[i], id, poe_state, o))

SetInterfaceDescription(i) ==
    /\ ncalls < MaxCalls
    /\ sess[i].cls = "Device"
    /\ \E id \in InterfaceIds, description \in Descriptions, o \in Outcomes :
           Commit(i, "set_interface_description",
                  [NoArgs EXCEPT !.interface_id = id, !.text = description],
                  set_interface_description(sess[i], id, description, o))

SetInterfaceVlan(i) ==
    /\ ncalls < MaxCalls
    /\ sess[i].cls = "Device"
    /\ \E id \in InterfaceIds, vlan_id \in VlanIds, o \in Outcomes :
           Commit(i, "set_interface_vlan",
                  [NoArgs EXCEPT !.interface_id = id, !.num = vlan_id],
                  set_interface_vlan(sess[i], id, vlan_id, o))

\* The program leaves verbosity at its default here; set_verbose is called
\* in SpecTwin, where a verbose session runs beside a quiet one.
Next ==
    \/ \E i \in Objects : SetVerify(i)
    \/ \E i \in Objects : NewDevice(i)
    \/ \E i \in Objects : Devices(i)
    \/ \E i \in Objects : Stats(i)
    \/ \E i \in Objects : Environment(i)
    \/ \E i \in Objects : Execute(i)
    \/ \E i \in Objects : Get(i)
    \/ \E i \in Objects : SetInterfaceState(i)
    \/ \E i \in Objects : SetInterfacePoeState(i)
    \/ \E i \in Objects : SetInterfaceDescription(i)
    \/ \E i \in Objects : SetInterfaceVlan(i)

Spec == Init /\ [][Next]_vars

----------------------------------------------------------------------------
(* Properties of the execute contract *)

Called(i) == last[i].op # ""

Exchanged(i) == last[i].outcome.kind = "response"

Failed(i) == last[i].outcome.kind = "exception"

SuccessRange(code) == code >= 200 /\ code <= 299

\* C1: every operation returns true if and only if the request was sent and
\* the peer's status is in 200..299; false for a transport exception and
\* for every other status.
C1_TrueIffSuccessRange ==
    \A i \in Objects :
        Called(i) =>
            (last[i].ret <=> (Exchanged(i) /\ SuccessRange(last[i].outcome.status_code)))

\* C2: when the transport raises during a call, whatever the object held
\* before, the call returns false with status -1, error the text of the
\* exception and response cleared, and nothing propagates to the caller.
C2_TransportFailure ==
    \A i \in Objects :
        Failed(i) =>
            /\ last[i].ret = FALSE
            /\ ~last[i].raised
            /\ sess[i].status = -1
            /\ sess[i].error = last[i].outcome.text
            /\ sess[i].response = NoResponse

\* C2 witness: a second call on the Server failed in the transport.
C2_Witness ==
    /\ Objects = {0}
    /\ ncalls = 2
    /\ Failed(0)
    /\ sess[0].error = "Read timed out"

\* C3: when the exchange completes, with any status, the call leaves status
\* equal to the HTTP status, error empty and response holding this
\* exchange's reply; a non-2xx reply returns false with its body kept.
C3_CompletedExchange ==
    \A i \in Objects :
        Exchanged(i) =>
            LET o == last[i].outcome IN
            /\ sess[i].status = o.status_code
            /\ sess[i].error = ""
            /\ sess[i].response = Response(o, sess[i].url \o last[i].endpoint)
            /\ ~last[i].raised
            /\ ~SuccessRange(o.status_code) =>
                   (last[i].ret = FALSE /\ sess[i].response.content = o.content)

\* C3 witness: a second call on the Server was answered 404 with a reason.
C3_Witness ==
    /\ Objects = {0}
    /\ ncalls = 2
    /\ Exchanged(0)
    /\ sess[0].status = 404
    /\ last[0].ret = FALSE
    /\ sess[0].response.content = "{\"reason\": \"not found\"}"

\* The three outcomes a returned call can have left.
TransportFailure(i) == sess[i].status = -1 /\ ~sess[i].response.present

HttpError(i) ==
    /\ sess[i].status > 0
    /\ ~SuccessRange(sess[i].status)
    /\ sess[i].error = ""
    /\ sess[i].response.present
    /\ sess[i].response.status_code = sess[i].status

HttpSuccess(i) ==
    /\ SuccessRange(sess[i].status)
    /\ sess[i].error = ""
    /\ sess[i].response.present
    /\ sess[i].response.status_code = sess[i].status

\* What the most recent call alone dictates for status, error and response.
OutcomeOfLast(i) ==
    LET o == last[i].outcome IN
    IF o.kind = "exception"
    THEN [status |-> -1, error |-> o.text, response |-> NoResponse]
    ELSE [status |-> o.status_code, error |-> "",
          response |-> Response(o, sess[i].url \o last[i].endpoint)]

\* C4: after any sequence of calls on an object, exactly one of transport
\* failure, HTTP error and HTTP success holds, status is not 0, and status,
\* error and response are those of the most recent call only.
C4_LastOutcomeOnly ==
    \A i \in Objects :
        Called(i) =>
            /\ Cardinality({k \in 1..3 :
                   \/ k = 1 /\ TransportFailure(i)
                   \/ k = 2 /\ HttpError(i)
                   \/ k = 3 /\ HttpSuccess(i)}) = 1
            /\ sess[i].status # 0
            /\ [status |-> sess[i].status, error |-> sess[i].error,
                response |-> sess[i].response] = OutcomeOfLast(i)

\* C4 witness: the Device was called twice, the second call succeeding
\* with a status other than that of any failure before it.
C4_Witness ==
    /\ 1 \in Objects
    /\ ncalls = 2
    /\ last[0].op = ""
    /\ HttpSuccess(1)
    /\ sess[1].status = 204

----------------------------------------------------------------------------
(* Properties of the device factory *)

\* C5: the Device that device(device_url) returns is bound to device_url and
\* carries the bearer credential and the TLS-verification flag of the
\* object that made it.
C5_DeviceInheritsConfig ==
    [][\A j \in (DOMAIN sess') \ (DOMAIN sess) :
          LET maker == sess[made'[j].by] IN
          /\ sess'[j].url = made'[j].device_url
          /\ sess'[j].token = maker.token
          /\ sess'[j].headers = maker.headers
          /\ sess'[j].verify = maker.verify]_vars

----------------------------------------------------------------------------
(* Properties of the requests *)

GetOps == {"devices", "stats", "environment", "get"}

PostOps ==
    {"set_interface_state", "set_interface_poe_state", "set_interface_description",
     "set_interface_vlan"}

\* Every request the last call on i sent is a POST of the data it passed.
PostedAsGiven(i) ==
    \A n \in 1..Len(last[i].requests) :
        LET r == last[i].requests[n] IN
        /\ r.method = "POST"
        /\ r.json = last[i].data
        /\ r.url = sess[i].url \o last[i].endpoint

\* C7: execute sends POST with the data as JSON body whenever a body
\* argument is supplied, an empty mapping included, and GET exactly when
\* none is; the URL is the base address followed by the endpoint; devices,
\* stats, environment and get send GET, the set_interface operations POST.
C7_MethodByBodyPresence ==
    \A i \in Objects :
        \A n \in 1..Len(last[i].requests) :
            LET r == last[i].requests[n] IN
            /\ r.method = (IF last[i].data.given THEN "POST" ELSE "GET")
            /\ last[i].data.given => r.json = last[i].data
            /\ r.url = sess[i].url \o last[i].endpoint
            /\ last[i].op \in GetOps => r.method = "GET"
            /\ last[i].op \in PostOps => r.method = "POST"

\* C8: set_interface_state posts {state: "on"} or {state: "off"} to
\* interface/{id}/state/; set_interface_poe_state posts {poe_state: flag}
\* to interface/{id}/poe_state/ with the flag still a boolean.
C8_StateAndPoeBodies ==
    \A i \in Objects :
        LET a == last[i].args IN
        /\ last[i].op = "set_interface_state" =>
               /\ last[i].endpoint = "interface/" \o a.interface_id \o "/state/"
               /\ last[i].data =
                      Dict(<<Item("state", JStr(IF a.flag THEN "on" ELSE "off"))>>)
               /\ PostedAsGiven(i)
        /\ last[i].op = "set_interface_poe_state" =>
               /\ last[i].endpoint = "interface/" \o a.interface_id \o "/poe_state/"
               /\ last[i].data = Dict(<<Item("poe_state", JBool(a.flag))>>)
               /\ PostedAsGiven(i)

\* C8 witness: PoE was switched off on the Device and the request went out.
C8_Witness ==
    /\ 1 \in Objects
    /\ last[1].op = "set_interface_poe_state"
    /\ last[1].args.flag = FALSE
    /\ Len(last[1].requests) = 1
    /\ last[1].requests[1].json.items[1].val = JBool(FALSE)

\* C9: a call sends at most one request, and exactly one unless the
\* transport raised before sending; after n calls at most n were sent.
C9_AtMostOneRequestPerCall ==
    /\ nreq <= ncalls
    /\ \A i \in Objects :
           /\ Len(last[i].requests) <= 1
           /\ (Called(i) /\ ~(Failed(i) /\ ~last[i].outcome.sent)) =>
                  Len(last[i].requests) = 1

\* C9 witness: two calls on the Server, the second answered 404, and two
\* requests sent in all.
C9_Witness ==
    /\ Objects = {0}
    /\ ncalls = 2
    /\ nreq = 2
    /\ sess[0].status = 404

----------------------------------------------------------------------------
(* Two sessions side by side.  Objects 0 and 1 are two Servers, or two     *)
(* Devices, constructed with the same arguments; both are given the same   *)
(* operations and the same transport outcomes, and only set_verbose is     *)
(* called with different arguments on the two.                             *)

PlainCalls(ops) == {[op |-> n, args |-> NoArgs, data |-> NoData] : n \in ops}

ServerCalls ==
    PlainCalls({"devices", "stats", "environment"})
        \cup {[op |-> "execute", args |-> [NoArgs EXCEPT !.text = e], data |-> d] :
                 e \in RawEndpoints, d \in RawData}

DeviceCalls ==
    ServerCalls
        \cup {[op |-> "get", args |-> [NoArgs EXCEPT !.text = v], data |-> NoData] :
                 v \in Views}
        \cup {[op |-> n, args |-> [NoArgs EXCEPT !.interface_id = id, !.flag = f],
                data |-> NoData] :
                 n \in {"set_interface_state", "set_interface_poe_state"},
                 id \in InterfaceIds, f \in BOOLEAN}
        \cup {[op |-> "set_interface_description",
                args |-> [NoArgs EXCEPT !.interface_id = id, !.text = t], data |-> NoData] :
                 id \in InterfaceIds, t \in Descriptions}
        \cup {[op |-> "set_interface_vlan",
                args |-> [NoArgs EXCEPT !.interface_id = id, !.num = v], data |-> NoData] :
                 id \in InterfaceIds, v \in VlanIds}

CallsOn(self) == IF self.cls = "Device" THEN DeviceCalls ELSE ServerCalls

\* The method call c on object self, the transport doing o.
Invoke(self, c, o) ==
    CASE c.op = "devices" -> devices(self, o)
      [] c.op = "stats" -> stats(self, o)
      [] c.op = "environment" -> environment(self, o)
      [] c.op = "execute" -> execute(self, c.args.text, c.data, o)
      [] c.op = "get" -> get(self, c.args.text, o)
      [] c.op = "set_interface_state" ->
            set_interface_state(self, c.args.interface_id, c.args.flag, o)
      [] c.op = "set_interface_poe_state" ->
            set_interface_poe_state(self, c.args.interface_id, c.args.flag, o)
      [] c.op = "set_interface_description" ->
            set_interface_description(self, c.args.interface_id, c.args.text, o)
      [] c.op = "set_interface_vlan" ->
            set_interface_vlan(self, c.args.interface_id, c.args.num, o)

TwinInit ==
    /\ \E token \in Tokens :
           \/ \E url \in ServerUrls :
                 sess = (0 :> Server__init__(url, token)) @@ (1 :> Server__init__(url, token))
           \/ \E device_url \in DeviceUrls :
                 sess = (0 :> Device__init__(device_url, token))
                          @@ (1 :> Device__init__(device_url, token))
    /\ last = (0 :> NoCall) @@ (1 :> NoCall)
    /\ stdout = <<>>
    /\ ncalls = 0
    /\ nreq = 0
    /\ nconf = 0
    /\ made = <<>>

TwinSetVerbose ==
    \E va \in Verbosity, vb \in Verbosity :
        /\ va # vb
        /\ nconf < MaxConfig
        /\ sess' = [sess EXCEPT ![0].verbose = va, ![1].verbose = vb]
        /\ nconf' = nconf + 1
        /\ UNCHANGED <<last, stdout, ncalls, nreq, made>>

TwinCall ==
    /\ ncalls < 2 * MaxCalls
    /\ \E c \in CallsOn(sess[0]), o \in Outcomes :
           \E r \in {[k \in {0, 1} |-> Invoke(sess[k], c, o)]} :
               /\ sess' = [k \in {0, 1} |-> r[k].self]
               /\ last' = [k \in {0, 1} |-> Record(c.op, c.args, r[k])]
               /\ stdout' = r[0].stdout \o r[1].stdout
               /\ ncalls' = ncalls + 2
               /\ nreq' = nreq + Len(r[0].requests) + Len(r[1].requests)
               /\ UNCHANGED <<nconf, made>>

NextTwin ==
    \/ TwinSetVerbose
    \/ TwinCall

SpecTwin == TwinInit /\ [][NextTwin]_vars

\* C10: two sessions that differ only in verbosity, given the same
\* operations and the same transport outcomes, return the same value, send
\* the same request and hold the same status, error and response.
C10_VerbosityIsObservational ==
    /\ sess[0].status = sess[1].status
    /\ sess[0].error = sess[1].error
    /\ sess[0].response = sess[1].response
    /\ last[0].ret = last[1].ret
    /\ last[0].raised = last[1].raised
    /\ last[0].requests = last[1].requests

\* C10 witness: two Devices run at verbosity 0 and 2, the louder one
\* printed the reply's body, and both hold the 200 reply of a second call.
C10_Witness ==
    /\ sess[0].verbose = 0
    /\ sess[1].verbose = 2
    /\ ncalls = 4
    /\ last[0].op = "set_interface_poe_state"
    /\ last[0].ret
    /\ last[1].ret
    /\ sess[1].response.present
    /\ Len(stdout) = 5

----------------------------------------------------------------------------
(* Concurrent callers, one per object.  A call is no longer one step: it   *)
(* begins (lines 85-96: the outcome fields are reset and the request is    *)
(* handed to the transport), other callers run while the transport works,  *)
(* and it finishes when the transport returns or raises (lines 97-108).    *)
(* An object whose call is in flight has last[i].op set and no outcome.    *)

ConcDeviceIds == {1, 2}

ConcServerCalls == PlainCalls({"devices", "stats"})

ConcDeviceCalls ==
    {[op |-> "get", args |-> NoArgs, data |-> NoData]}
        \cup {[op |-> n, args |-> [NoArgs EXCEPT !.interface_id = id, !.flag = f],
                data |-> NoData] :
                 n \in {"set_interface_state", "set_interface_poe_state"},
                 id \in InterfaceIds, f \in {FALSE}}

ConcCallsOn(self) == IF self.cls = "Device" THEN ConcDeviceCalls ELSE ConcServerCalls

InFlight(i) == last[i].op # "" /\ last[i].outcome.kind = "none"

Returned(i) == last[i].op # "" /\ last[i].outcome.kind # "none"

\* The fields of self once call c has reached the transport.
BeginFields(self, c) ==
    ClearOutcome(IF c.op \in {"set_interface_state", "set_interface_poe_state"}
                 THEN [self EXCEPT !.error_string = ""]
                 ELSE self)

\* Variant of StoreOutcome for status, error and response kept as class
\* attributes, which every object of the class shares.
StoreOutcome_ClassAttributes(objs, i, self) ==
    [k \in DOMAIN objs |->
        [objs[k] EXCEPT !.status = self.status, !.error = self.error,
                        !.response = self.response,
                        !.error_string = IF k = i THEN self.error_string ELSE @]]

\* self.status, self.error and self.response are attributes of the object
\* the method was called on: storing them touches that object only.
StoreOutcome(objs, i, self) == [objs EXCEPT ![i] = self]

ConcSetVerify(i) ==
    /\ ~InFlight(i)
    /\ nconf < MaxConfig
    /\ \E verify \in BOOLEAN :
           sess' = [sess EXCEPT ![i].verify = verify]
    /\ nconf' = nconf + 1
    /\ UNCHANGED <<last, stdout, ncalls, nreq, made>>

ConcNewDevice(i) ==
    \E device_url \in DeviceUrls :
        LET j == Cardinality(Objects) IN
        /\ ~InFlight(i)
        /\ j \in ConcDeviceIds
        /\ sess' = sess @@ (j :> device(sess[i], device_url))
        /\ last' = last @@ (j :> NoCall)
        /\ made' = made @@ (j :> [by |-> i, device_url |-> device_url])
        /\ stdout' = debug(sess[i], "device(device_url=" \o device_url \o ")", 1)
        /\ UNCHANGED <<ncalls, nreq, nconf>>

Begin(i) ==
    /\ ~InFlight(i)
    /\ ncalls < MaxCalls
    /\ \E c \in ConcCallsOn(sess[i]) :
           /\ sess' = StoreOutcome(sess, i, BeginFields(sess[i], c))
           /\ last' = [last EXCEPT ![i] =
                          [NoCall EXCEPT !.op = c.op, !.args = c.args, !.data = c.data]]
    /\ ncalls' = ncalls + 1
    /\ UNCHANGED <<stdout, nreq, nconf, made>>

Finish(i) ==
    /\ InFlight(i)
    /\ \E o \in Outcomes :
           \E r \in {Invoke(sess[i],
                             [op |-> last[i].op, args |-> last[i].args,
                              data |-> last[i].data], o)} :
               /\ sess' = StoreOutcome(sess, i, r.self)
               /\ last' = [last EXCEPT ![i] = Record(last[i].op, last[i].args, r)]
               /\ stdout' = r.stdout
               /\ nreq' = nreq + Len(r.requests)
    /\ UNCHANGED <<ncalls, nconf, made>>

NextConc ==
    \/ \E i \in Objects : ConcSetVerify(i)
    \/ \E i \in Objects : ConcNewDevice(i)
    \/ \E i \in Objects : Begin(i)
    \/ \E i \in Objects : Finish(i)

SpecConc == Init /\ [][NextConc]_vars

\* The object a step is a call on, if any: the one whose call began or
\* finished.
Stepped(j) == last'[j] # last[j]

\* C11: with one caller per object, under every interleaving a call on one
\* object leaves status, error, response and configuration of every other
\* object unchanged, and an object whose call has returned holds the
\* outcome of its own last call.
C11_DistinctInstancesIndependent ==
    [][/\ \A j \in DOMAIN sess : \A i \in DOMAIN sess :
             (Stepped(j) /\ i # j) => (sess'[i] = sess[i] /\ last'[i] = last[i])
       /\ \A i \in DOMAIN sess' :
             /\ (last'[i].op # "" /\ last'[i].outcome.kind # "none") =>
                    LET o == last'[i].outcome IN
                    /\ sess'[i].status = (IF o.kind = "exception" THEN -1
                                                                   ELSE o.status_code)
                    /\ sess'[i].error = o.text
                    /\ sess'[i].response =
                           (IF o.kind = "exception" THEN NoResponse
                            ELSE Response(o, sess'[i].url \o last'[i].endpoint))
             /\ (last'[i].op # "" /\ last'[i].outcome.kind = "none") =>
                    /\ sess'[i].status = 0
                    /\ sess'[i].error = ""
                    /\ sess'[i].response = NoResponse]_vars

\* C11 witness: the call on Device 1 began first and is still in flight,
\* the call on Device 2 began after it and has already failed, and the
\* Server, reconfigured meanwhile, holds its initial outcome.
C11_Witness ==
    /\ Objects = {0, 1, 2}
    /\ InFlight(1)
    /\ sess[1].status = 0
    /\ Returned(2)
    /\ sess[2].status = -1
    /\ sess[2].error = "Read timed out"
    /\ sess[0].verify = FALSE
    /\ sess[1].verify = TRUE
    /\ sess[0].status = 0

====
